---- MODULE Spec2Model ----
(***************************************************************************)
(* Resource accounting of a VM host (pod):                                 *)
(* maasserver/models/virtualmachine.py, get_vm_host_resources and the      *)
(* helpers it calls.  The database rows read by the queries are the        *)
(* snapshot variables; one call of get_vm_host_resources is run over them  *)
(* step by step: the global counters, then (detailed) the per NUMA node    *)
(* accumulators, one VM per step, then the per node report.                *)
(* A call that returned can be followed by another call on the same rows.  *)
(* VirtualMachine.clean is run on one VirtualMachine in a specification of *)
(* its own, CleanSpec.                                                     *)
(*                                                                         *)
(* Sizes are integers: VirtualMachine.memory and NUMANode.memory are MB,   *)
(* everything in the report is bytes.  A NUMA weight is the Python float   *)
(* len(common_cores) / len(vm.pinned_cores); it is kept as the exact       *)
(* fraction [num, den], and int(vm.memory * MB * weight) is the floor of   *)
(* the exact product, which is what the float computation yields for the   *)
(* sizes used here.                                                        *)
(***************************************************************************)
EXTENDS Integers, Sequences, FiniteSets, TLC

VARIABLES
    \* the snapshot: rows the queries read
    pod,                \* [host, tracked_project]
    numanodes,          \* NUMANode rows of pod.host, ordered by index
    host_interfaces,    \* Interface rows of pod.host
    vms,                \* VirtualMachine rows with bmc = pod
    vm_interfaces,      \* VirtualMachineInterface rows
    vm_disks,           \* VirtualMachineDisk rows
    storage_pools,      \* PodStoragePool rows with pod = pod
    \* one call of get_vm_host_resources
    pc,
    detailed,
    resources,          \* the VMHostResources being filled in
    detailed_vms,       \* `vms` of _update_detailed_resource_counters
    vm_idx,             \* position of `for vm in vms`
    numanode_weights,   \* the weights and cores _update_numanode_resources_usage
    used_numanode_cores, \* got for the VM it processed last
    available_numanode_cores,
    allocated_numanode_memory,
    allocated_numanode_hugepages,
    numanode_vms_resources,
    allocated_vfs,      \* interface.allocated_vfs, by interface id
    \* the callers of get_vm_host_resources
    calls,              \* the number of the call under way
    returned,           \* what the call before returned, if there was one
    \* VirtualMachine.clean
    instance            \* the VirtualMachine being saved, if one is

snapshot == <<pod, numanodes, host_interfaces, vms, vm_interfaces, vm_disks,
              storage_pools>>
accumulators == <<available_numanode_cores, allocated_numanode_memory,
                  allocated_numanode_hugepages, numanode_vms_resources,
                  allocated_vfs>>
callers == <<calls, returned>>
vars == <<snapshot, pc, detailed, resources, detailed_vms, vm_idx,
          numanode_weights, used_numanode_cores, accumulators, callers,
          instance>>

MB == 1048576

None == "None"
SRIOV == "sriov"
BRIDGE == "bridge"

(***************************************************************************)
(* Helpers: sums over sequences, sorted(), ceil().                         *)
(***************************************************************************)
RECURSIVE SeqSum(_)
SeqSum(s) == IF s = <<>> THEN 0 ELSE Head(s) + SeqSum(Tail(s))

SetMin(S) == CHOOSE x \in S : \A y \in S : x <= y

RECURSIVE sorted(_)
sorted(S) == IF S = {} THEN <<>>
             ELSE <<SetMin(S)>> \o sorted(S \ {SetMin(S)})

\* math.ceil(a / b) for a >= 0, b > 0
ceil(a, b) == (a + b - 1) \div b

Range(s) == {s[i] : i \in DOMAIN s}

NodeIndexes == {numanodes[i].index : i \in DOMAIN numanodes}

NodeByIndex(idx) == CHOOSE n \in Range(numanodes) : n.index = idx

NULL == 0 - 1       \* a NULL integer column

(***************************************************************************)
(* The dataclasses' default values.                                        *)
(***************************************************************************)
VMHostResource == [allocated_tracked |-> 0, allocated_other |-> 0, free |-> 0]

VMHostCount == [tracked |-> 0, other |-> 0]

VMHostResources ==
    [cores |-> VMHostResource,
     memory |-> [hugepages |-> VMHostResource, general |-> VMHostResource],
     storage |-> VMHostResource,
     vm_count |-> VMHostCount,
     interfaces |-> <<>>,
     vms |-> <<>>,
     numa |-> <<>>]

\* VMHostResource.allocated
Allocated(r) == r.allocated_tracked + r.allocated_other

\* Q(project=pod.tracked_project)
IsTracked(vm) == vm.project = pod.tracked_project

VmById(id) == CHOOSE vm \in Range(vms) : vm.id = id

HostInterfaceById(id) == CHOOSE h \in Range(host_interfaces) : h.id = id

\* Coalesce(array_length(field, 1), 0)
ArrayLength(cores) == Cardinality(cores)

(***************************************************************************)
(* _get_vm_numanode_weights_and_cores: the scan `for numa_idx, numa_node   *)
(* in numanodes.items()` from position i on, vm_cores being the cores not  *)
(* yet attributed.  acc.weights is the dict numanode_weights, acc.cores    *)
(* the defaultdict(set) numanode_cores, acc.scanned the number of turns of *)
(* the loop taken.                                                         *)
(***************************************************************************)
\* Weight over the pinned cores that are cores of a node
WeightOfMapped(common_cores, pinned_cores) ==
    [num |-> Cardinality(common_cores),
     den |-> Cardinality(pinned_cores
                         \cap UNION {numanodes[i].cores : i \in DOMAIN numanodes})]

\* len(common_cores) / len(vm.pinned_cores)
Weight(common_cores, pinned_cores) ==
    [num |-> Cardinality(common_cores), den |-> Cardinality(pinned_cores)]

\* ScanNumaNodes weighting against the cores still unattributed
RECURSIVE ScanNumaNodesOfRemaining(_, _, _, _)
ScanNumaNodesOfRemaining(vm, i, vm_cores, acc) ==
    IF i > Len(numanodes) THEN acc
    ELSE LET numa_node == numanodes[i]
             numa_idx == numa_node.index
             common_cores == vm_cores \cap numa_node.cores
             acc1 == IF common_cores # {}
                     THEN [weights |-> (numa_idx :> Weight(common_cores, vm_cores))
                                           @@ acc.weights,
                           cores |-> [acc.cores EXCEPT ![numa_idx] = common_cores],
                           scanned |-> acc.scanned + 1]
                     ELSE [acc EXCEPT !.scanned = @ + 1]
             rest == vm_cores \ common_cores
         IN  IF rest = {} THEN acc1
             ELSE ScanNumaNodesOfRemaining(vm, i + 1, rest, acc1)

RECURSIVE ScanNumaNodes(_, _, _, _)
ScanNumaNodes(vm, i, vm_cores, acc) ==
    IF i > Len(numanodes) THEN acc
    ELSE LET numa_node == numanodes[i]
             numa_idx == numa_node.index
             common_cores == vm_cores \cap numa_node.cores
             acc1 == IF common_cores # {}
                     THEN [weights |-> (numa_idx :> Weight(common_cores, vm.pinned_cores))
                                           @@ acc.weights,
                           cores |-> [acc.cores EXCEPT ![numa_idx] = common_cores],
                           scanned |-> acc.scanned + 1]
                     ELSE [acc EXCEPT !.scanned = @ + 1]
             rest == vm_cores \ common_cores
         IN  IF rest = {} THEN acc1
             ELSE ScanNumaNodes(vm, i + 1, rest, acc1)

GetVmNumanodeWeightsAndCores(vm) ==
    ScanNumaNodes(vm, 1, vm.pinned_cores,
                  [weights |-> <<>>, cores |-> [idx \in NodeIndexes |-> {}],
                   scanned |-> 0])

(***************************************************************************)
(* Local names of _update_detailed_resource_counters that the loop over    *)
(* the VMs only reads.                                                     *)
(***************************************************************************)
\* numanode_hugepages[numa_idx] = numa_node.hugepages_set.first(), kept as
\* the sequence of at most one entry
numanode_hugepages(numa_idx) ==
    LET hs == NodeByIndex(numa_idx).hugepages_set
    IN  IF hs = <<>> THEN <<>> ELSE <<Head(hs)>>

\* numanode_interfaces[numa_idx], numa_index = F("numa_node__index")
numanode_interfaces(numa_idx) ==
    SelectSeq(host_interfaces, LAMBDA h : h.numa_index = numa_idx)

\* TrackedVms without the filter on the project
AllVms == vms

\* the VMs of the tracked project
TrackedVms == SelectSeq(vms, IsTracked)

\* numa_index = F("host_interface__numa_node__index")
VmInterfaceNumaIndex(vm_interface) ==
    HostInterfaceById(vm_interface.host_interface_id).numa_index

\* vm_interfaces[vm.id] of all_vm_interfaces (vm__in=vms,
\* host_interface__isnull=False)
VmInterfacesOf(vm) ==
    SelectSeq(vm_interfaces,
              LAMBDA i : /\ i.vm_id = vm.id
                         /\ \E k \in DOMAIN TrackedVms : TrackedVms[k].id = i.vm_id
                         /\ i.host_interface_id # NULL)

\* VmNodeMemory rounding up
VmNodeMemoryCeil(vm, numa_weight) ==
    ceil(vm.memory * MB * numa_weight.num, numa_weight.den)

\* int(vm.memory * MB * numa_weight)
VmNodeMemory(vm, numa_weight) ==
    (vm.memory * MB * numa_weight.num) \div numa_weight.den

\* RoundUpToPage rounding down
RoundDownToPage(vm_node_memory, page_size) ==
    (vm_node_memory \div page_size) * page_size

\* round up to nearest page
RoundUpToPage(vm_node_memory, page_size) ==
    ceil(vm_node_memory, page_size) * page_size

(***************************************************************************)
(* _update_numanode_resources_usage for one VM: the value of every         *)
(* accumulator after the call, given its value before.                     *)
(***************************************************************************)
\* HugepagesAfter without the test of vm.hugepages_backed
HugepagesAfterAnyVm(vm, w, before) ==
    [numa_idx \in NodeIndexes |->
        IF /\ numa_idx \in DOMAIN w.weights
           /\ numanode_hugepages(numa_idx) # <<>>
        THEN before[numa_idx]
             + RoundUpToPage(VmNodeMemory(vm, w.weights[numa_idx]),
                             numanode_hugepages(numa_idx)[1].page_size)
        ELSE before[numa_idx]]

HugepagesAfter(vm, w, before) ==
    [numa_idx \in NodeIndexes |->
        IF /\ numa_idx \in DOMAIN w.weights
           /\ vm.hugepages_backed
           /\ numanode_hugepages(numa_idx) # <<>>
        THEN before[numa_idx]
             + RoundUpToPage(VmNodeMemory(vm, w.weights[numa_idx]),
                             numanode_hugepages(numa_idx)[1].page_size)
        ELSE before[numa_idx]]

\* MemoryAfter with the `else` on `if hugepages:`, so that a
\* hugepages-backed VM's share goes to the general memory of a node that
\* has no hugepages
MemoryAfterWithoutHugepages(vm, w, before) ==
    [numa_idx \in NodeIndexes |->
        IF /\ numa_idx \in DOMAIN w.weights
           /\ (~vm.hugepages_backed \/ numanode_hugepages(numa_idx) = <<>>)
        THEN before[numa_idx] + VmNodeMemory(vm, w.weights[numa_idx])
        ELSE before[numa_idx]]

MemoryAfter(vm, w, before) ==
    [numa_idx \in NodeIndexes |->
        IF numa_idx \in DOMAIN w.weights /\ ~vm.hugepages_backed
        THEN before[numa_idx] + VmNodeMemory(vm, w.weights[numa_idx])
        ELSE before[numa_idx]]

\* CoresAfter with intersection_update for difference_update
CoresAfterIntersection(vm, w, before) ==
    [numa_idx \in NodeIndexes |->
        IF numa_idx \in DOMAIN w.weights /\ w.cores[numa_idx] # {}
        THEN before[numa_idx] \cap w.cores[numa_idx]
        ELSE before[numa_idx]]

CoresAfter(vm, w, before) ==
    [numa_idx \in NodeIndexes |->
        IF numa_idx \in DOMAIN w.weights /\ w.cores[numa_idx] # {}
        THEN before[numa_idx] \ w.cores[numa_idx]
        ELSE before[numa_idx]]

\* NumaNetworks without `if vm_interface.numa_index != numa_idx: continue`
NumaNetworksAnyNode(vm, numa_idx) == VmInterfacesOf(vm)

\* the VM's interfaces in the node, in the order of vm_interfaces
NumaNetworks(vm, numa_idx) ==
    SelectSeq(VmInterfacesOf(vm),
              LAMBDA i : VmInterfaceNumaIndex(i) = numa_idx)

NetworkResources(nets) ==
    [k \in DOMAIN nets |-> [host_nic_id |-> nets[k].host_interface_id]]

\* VfsAfter without the test of attachment_type
VfsAfterAnyAttachment(vm, before) ==
    [id \in DOMAIN before |->
        before[id]
        + SeqSum([k \in DOMAIN numanodes |->
              IF \E j \in DOMAIN numanode_interfaces(numanodes[k].index) :
                     numanode_interfaces(numanodes[k].index)[j].id = id
              THEN Len(SelectSeq(NumaNetworks(vm, numanodes[k].index),
                                 LAMBDA i : i.host_interface_id = id))
              ELSE 0])]

\* the loop over vm_interfaces of every node: allocated_vfs += 1 of the
\* node's host interface an SRIOV VM interface is attached to
VfsAfter(vm, before) ==
    [id \in DOMAIN before |->
        before[id]
        + SeqSum([k \in DOMAIN numanodes |->
              IF \E j \in DOMAIN numanode_interfaces(numanodes[k].index) :
                     numanode_interfaces(numanodes[k].index)[j].id = id
              THEN Len(SelectSeq(NumaNetworks(vm, numanodes[k].index),
                                 LAMBDA i : /\ i.attachment_type = SRIOV
                                            /\ i.host_interface_id = id))
              ELSE 0])]

\* VmsResourcesAfter with `if pinned_cores:` for `if pinned_cores or numa_networks:`
VmsResourcesAfterPinnedOnly(vm, w, before) ==
    [numa_idx \in NodeIndexes |->
        IF w.cores[numa_idx] # {}
        THEN Append(before[numa_idx],
                    [system_id |-> vm.id,
                     pinned_cores |-> w.cores[numa_idx],
                     networks |-> NetworkResources(NumaNetworks(vm, numa_idx))])
        ELSE before[numa_idx]]

VmsResourcesAfter(vm, w, before) ==
    [numa_idx \in NodeIndexes |->
        IF w.cores[numa_idx] # {} \/ NumaNetworks(vm, numa_idx) # <<>>
        THEN Append(before[numa_idx],
                    [system_id |-> vm.id,
                     pinned_cores |-> w.cores[numa_idx],
                     networks |-> NetworkResources(NumaNetworks(vm, numa_idx))])
        ELSE before[numa_idx]]

\* VMHostVirtualMachineResources(...); every VM is taken to have a machine
\* of its own, and vm.id stands for its system_id
VMHostVirtualMachineResources(vm) ==
    [id |-> vm.id, system_id |-> vm.id, memory |-> vm.memory * MB,
     hugepages_backed |-> vm.hugepages_backed,
     unpinned_cores |-> vm.unpinned_cores, pinned_cores |-> vm.pinned_cores]

(***************************************************************************)
(* _get_numa_pinning_resources for one node.                               *)
(***************************************************************************)
\* GetNumaPinningResources taking the allocated hugepages, not the pool's
\* total, off the free general memory
GetNumaPinningResourcesLessAllocated(numa_node) ==
    LET idx == numa_node.index
        hp == numanode_hugepages(idx)
        general_free == numa_node.memory * MB - allocated_numanode_memory[idx]
    IN  [node_id |-> idx,
         cores |-> [free |-> sorted(available_numanode_cores[idx]),
                    allocated |-> sorted(numa_node.cores
                                         \ available_numanode_cores[idx])],
         memory |->
            [general |->
                [allocated |-> allocated_numanode_memory[idx],
                 free |-> IF hp # <<>>
                          THEN general_free - allocated_numanode_hugepages[idx]
                          ELSE general_free],
             hugepages |->
                IF hp # <<>>
                THEN <<[page_size |-> hp[1].page_size,
                        allocated |-> allocated_numanode_hugepages[idx],
                        free |-> hp[1].total - allocated_numanode_hugepages[idx]]>>
                ELSE <<>>],
         vms |-> numanode_vms_resources[idx],
         interfaces |->
            [k \in DOMAIN numanode_interfaces(idx) |->
                LET interface == numanode_interfaces(idx)[k]
                IN  [id |-> interface.id, name |-> interface.name,
                     virtual_functions |->
                        [free |-> interface.sriov_max_vf
                                  - allocated_vfs[interface.id],
                         allocated |-> allocated_vfs[interface.id]]]]]

GetNumaPinningResources(numa_node) ==
    LET idx == numa_node.index
        hp == numanode_hugepages(idx)
        general_free == numa_node.memory * MB - allocated_numanode_memory[idx]
    IN  [node_id |-> idx,
         cores |-> [free |-> sorted(available_numanode_cores[idx]),
                    allocated |-> sorted(numa_node.cores
                                         \ available_numanode_cores[idx])],
         memory |->
            [general |->
                [allocated |-> allocated_numanode_memory[idx],
                 free |-> IF hp # <<>> THEN general_free - hp[1].total
                          ELSE general_free],
             hugepages |->
                IF hp # <<>>
                THEN <<[page_size |-> hp[1].page_size,
                        allocated |-> allocated_numanode_hugepages[idx],
                        free |-> hp[1].total - allocated_numanode_hugepages[idx]]>>
                ELSE <<>>],
         vms |-> numanode_vms_resources[idx],
         interfaces |->
            [k \in DOMAIN numanode_interfaces(idx) |->
                LET interface == numanode_interfaces(idx)[k]
                IN  [id |-> interface.id, name |-> interface.name,
                     virtual_functions |->
                        [free |-> interface.sriov_max_vf
                                  - allocated_vfs[interface.id],
                         allocated |-> allocated_vfs[interface.id]]]]]

(***************************************************************************)
(* _update_global_resource_counters.  Each query is the sequence of its    *)
(* result rows (one per group of the GROUP BY); the loops over the rows    *)
(* are the recursive operators below.                                      *)
(***************************************************************************)
\* NUMANode.objects.filter(node=pod.host).aggregate(...)
NumaTotals ==
    [cores |-> SeqSum([i \in DOMAIN numanodes |-> ArrayLength(numanodes[i].cores)]),
     memory |-> SeqSum([i \in DOMAIN numanodes |-> numanodes[i].memory]) * MB,
     hugepages |-> SeqSum([i \in DOMAIN numanodes |->
                      SeqSum([j \in DOMAIN numanodes[i].hugepages_set |->
                                 numanodes[i].hugepages_set[j].total])])]

BooleanGroups == <<TRUE, FALSE>>

\* DisksOfGroup without the filter backing_pool__pod=pod
DisksOfGroupAnyPool(tracked) ==
    SelectSeq(vm_disks, LAMBDA d : IsTracked(VmById(d.vm_id)) = tracked)

\* VirtualMachineDisk rows with backing_pool__pod=pod, grouped by
\* tracked_project, used=Sum("size")
DisksOfGroup(tracked) ==
    SelectSeq(vm_disks,
              LAMBDA d : /\ \E k \in DOMAIN storage_pools :
                                storage_pools[k].id = d.backing_pool_id
                         /\ IsTracked(VmById(d.vm_id)) = tracked)

StorageEntries ==
    LET row(t) == [tracked_project |-> t,
                   used |-> SeqSum([k \in DOMAIN DisksOfGroup(t) |->
                                       DisksOfGroup(t)[k].size])]
    IN  SelectSeq([k \in DOMAIN BooleanGroups |-> row(BooleanGroups[k])],
                  LAMBDA e : DisksOfGroup(e.tracked_project) # <<>>)

RECURSIVE StorageLoop(_, _)
StorageLoop(entries, storage) ==
    IF entries = <<>> THEN storage
    ELSE LET entry == Head(entries)
         IN  StorageLoop(Tail(entries),
                 IF entry.tracked_project
                 THEN [storage EXCEPT !.allocated_tracked = @ + entry.used]
                 ELSE [storage EXCEPT !.allocated_other = @ + entry.used])

\* Coalesce(Sum("storage"), Value(0)) over the pod's pools
TotalStorage == SeqSum([k \in DOMAIN storage_pools |-> storage_pools[k].storage])

\* VmsOfGroup grouping by hugepages_backed only
VmsOfGroupByHugepages(hugepages_backed, tracked) ==
    SelectSeq(vms, LAMBDA vm : vm.hugepages_backed = hugepages_backed)

\* VirtualMachine rows with bmc=pod grouped by hugepages_backed and tracked
VmsOfGroup(hugepages_backed, tracked) ==
    SelectSeq(vms, LAMBDA vm : /\ vm.hugepages_backed = hugepages_backed
                               /\ IsTracked(vm) = tracked)

\* VmEntries summing unpinned_cores only
VmEntriesUnpinnedOnly ==
    LET row(hp, t) ==
            LET g == VmsOfGroup(hp, t)
            IN  [hugepages_backed |-> hp, tracked |-> t, vms |-> Len(g),
                 cores |-> SeqSum([k \in DOMAIN g |-> g[k].unpinned_cores]),
                 memory |-> SeqSum([k \in DOMAIN g |-> g[k].memory])]
    IN  SelectSeq(<<row(FALSE, FALSE), row(FALSE, TRUE),
                    row(TRUE, FALSE), row(TRUE, TRUE)>>,
                  LAMBDA e : e.vms > 0)

VmEntries ==
    LET row(hp, t) ==
            LET g == VmsOfGroup(hp, t)
            IN  [hugepages_backed |-> hp, tracked |-> t, vms |-> Len(g),
                 cores |-> SeqSum([k \in DOMAIN g |->
                              g[k].unpinned_cores + ArrayLength(g[k].pinned_cores)]),
                 memory |-> SeqSum([k \in DOMAIN g |-> g[k].memory])]
    IN  SelectSeq(<<row(FALSE, FALSE), row(FALSE, TRUE),
                    row(TRUE, FALSE), row(TRUE, TRUE)>>,
                  LAMBDA e : e.vms > 0)

RECURSIVE VmsLoop(_, _)
VmsLoop(entries, res) ==
    IF entries = <<>> THEN res
    ELSE LET entry == Head(entries)
             mem == entry.memory * MB
         IN  VmsLoop(Tail(entries),
               IF entry.tracked
               THEN IF entry.hugepages_backed
                    THEN [res EXCEPT !.cores.allocated_tracked = @ + entry.cores,
                                     !.vm_count.tracked = @ + entry.vms,
                                     !.memory.hugepages.allocated_tracked = @ + mem]
                    ELSE [res EXCEPT !.cores.allocated_tracked = @ + entry.cores,
                                     !.vm_count.tracked = @ + entry.vms,
                                     !.memory.general.allocated_tracked = @ + mem]
               ELSE IF entry.hugepages_backed
                    THEN [res EXCEPT !.cores.allocated_other = @ + entry.cores,
                                     !.vm_count.other = @ + entry.vms,
                                     !.memory.hugepages.allocated_other = @ + mem]
                    ELSE [res EXCEPT !.cores.allocated_other = @ + entry.cores,
                                     !.vm_count.other = @ + entry.vms,
                                     !.memory.general.allocated_other = @ + mem])

\* SetFree clamping at 0
SetFreeClamped(res) ==
    LET max0(x) == IF x < 0 THEN 0 ELSE x
    IN  [res EXCEPT !.cores.free = max0(NumaTotals.cores - Allocated(res.cores)),
                    !.memory.general.free =
                        max0(NumaTotals.memory - Allocated(res.memory.general)),
                    !.memory.hugepages.free =
                        max0(NumaTotals.hugepages - Allocated(res.memory.hugepages))]

\* free = totals - allocated, for cores, general memory and hugepages
SetFree(res) ==
    [res EXCEPT !.cores.free = NumaTotals.cores - Allocated(res.cores),
                !.memory.general.free =
                    NumaTotals.memory - Allocated(res.memory.general),
                !.memory.hugepages.free =
                    NumaTotals.hugepages - Allocated(res.memory.hugepages)]

\* Interface rows of pod.host left-joined with their VM interfaces, grouped
\* by id, tracked and sriov_attached; allocated=Count("virtualmachineinterface").
\* An interface with no VM interface gives one row of count 0 whose tracked
\* and sriov_attached are NULL, which both tests of the loop read as false.
AttachedGroup(h, tracked, sriov_attached) ==
    SelectSeq(vm_interfaces,
              LAMBDA i : /\ i.host_interface_id = h.id
                         /\ IsTracked(VmById(i.vm_id)) = tracked
                         /\ (i.attachment_type = SRIOV) = sriov_attached)

InterfaceRows(h) ==
    LET row(t, s) == [id |-> h.id, name |-> h.name,
                      sriov_max_vf |-> h.sriov_max_vf,
                      allocated |-> Len(AttachedGroup(h, t, s)),
                      tracked |-> t, sriov_attached |-> s]
        groups == SelectSeq(<<row(FALSE, FALSE), row(FALSE, TRUE),
                              row(TRUE, FALSE), row(TRUE, TRUE)>>,
                            LAMBDA e : e.allocated > 0)
    IN  IF groups = <<>> THEN <<row(FALSE, FALSE)>> ELSE groups

RECURSIVE InterfaceEntries(_)
InterfaceEntries(k) ==
    IF k > Len(host_interfaces) THEN <<>>
    ELSE InterfaceRows(host_interfaces[k]) \o InterfaceEntries(k + 1)

\* VMHostNetworkInterface with the default VMHostResource()
VMHostNetworkInterfaceNoFree(entry) ==
    [id |-> entry.id, name |-> entry.name, virtual_functions |-> VMHostResource]

\* VMHostNetworkInterface(id, name, virtual_functions=VMHostResource(free=...))
VMHostNetworkInterface(entry) ==
    [id |-> entry.id, name |-> entry.name,
     virtual_functions |-> [VMHostResource EXCEPT !.free = entry.sriov_max_vf]]

\* InterfacesLoop without `if not entry["sriov_attached"]: continue`
RECURSIVE InterfacesLoopAnyAttachment(_, _)
InterfacesLoopAnyAttachment(entries, dict) ==
    IF entries = <<>> THEN dict
    ELSE LET entry == Head(entries)
             known == \E k \in DOMAIN dict : dict[k].id = entry.id
             dict1 == IF known THEN dict
                      ELSE Append(dict, VMHostNetworkInterface(entry))
             pos == CHOOSE k \in DOMAIN dict1 : dict1[k].id = entry.id
             allocated == entry.allocated
             dict2 ==
                IF entry.tracked
                THEN [dict1 EXCEPT
                        ![pos].virtual_functions.allocated_tracked = @ + allocated,
                        ![pos].virtual_functions.free = @ - allocated]
                ELSE [dict1 EXCEPT
                        ![pos].virtual_functions.allocated_other = @ + allocated,
                        ![pos].virtual_functions.free = @ - allocated]
         IN  InterfacesLoopAnyAttachment(Tail(entries), dict2)

\* the loop `for entry in interfaces`; dict is host_interfaces of the code,
\* a sequence in insertion order
RECURSIVE InterfacesLoop(_, _)
InterfacesLoop(entries, dict) ==
    IF entries = <<>> THEN dict
    ELSE LET entry == Head(entries)
             known == \E k \in DOMAIN dict : dict[k].id = entry.id
             dict1 == IF known THEN dict
                      ELSE Append(dict, VMHostNetworkInterface(entry))
             pos == CHOOSE k \in DOMAIN dict1 : dict1[k].id = entry.id
             allocated == entry.allocated
             dict2 ==
                IF ~entry.sriov_attached THEN dict1
                ELSE IF entry.tracked
                THEN [dict1 EXCEPT
                        ![pos].virtual_functions.allocated_tracked = @ + allocated,
                        ![pos].virtual_functions.free = @ - allocated]
                ELSE [dict1 EXCEPT
                        ![pos].virtual_functions.allocated_other = @ + allocated,
                        ![pos].virtual_functions.free = @ - allocated]
         IN  InterfacesLoop(Tail(entries), dict2)

UpdateGlobalResourceCounters(res) ==
    LET storage == StorageLoop(StorageEntries, res.storage)
        res1 == [res EXCEPT !.storage =
                    [storage EXCEPT !.free = TotalStorage - Allocated(storage)]]
        res2 == SetFree(VmsLoop(VmEntries, res1))
    IN  [res2 EXCEPT !.interfaces = InterfacesLoop(InterfaceEntries(1), <<>>)]

(***************************************************************************)
(* The snapshots explored.  The host has two NUMA nodes of CoresPerNode    *)
(* cores each, numbered consecutively; core NoNodeCore belongs to no node. *)
(* A VM's pinned_cores holds distinct core ids, so it is kept as a set and *)
(* len(vm.pinned_cores) is its cardinality.                                *)
(***************************************************************************)
CoresPerNode == 2
MaxPinned == 3
MaxUnpinned == 5
MaxMemory == 3
MaxVMs == 2
MaxVmInterfaces == 2
MaxDisks == 2
NodeMemory == 2
HugepagesPages == 1
MaxVf == 2
MaxCalls == 2

TrackedProject == "maas"
Projects == {TrackedProject, "other"}
Pods == {[host |-> h, tracked_project |-> TrackedProject] : h \in {"host", None}}

NodeCores(index) == (index * CoresPerNode) .. (index * CoresPerNode + CoresPerNode - 1)
NoNodeCore == 2 * CoresPerNode
CoreIds == 0 .. NoNodeCore

\* hugepage sizes: 1 MB and 2 MB pages
PageSizes == {MB, 2 * MB}
HugepagesChoices ==
    {<<>>} \cup {<<[page_size |-> ps, total |-> HugepagesPages * ps]>> : ps \in PageSizes}

NumaNode(index, hugepages_set) ==
    [index |-> index, cores |-> NodeCores(index), memory |-> NodeMemory,
     hugepages_set |-> hugepages_set]

Topologies == {<<NumaNode(0, h0), NumaNode(1, h1)>> :
                  h0 \in HugepagesChoices, h1 \in HugepagesChoices}

PlainTopology == <<NumaNode(0, <<[page_size |-> 2 * MB, total |-> HugepagesPages * 2 * MB]>>),
                   NumaNode(1, <<>>)>>

\* eth0 in node 0, eth1 in node 1, eth2 with no NUMA node
HostInterfaces ==
    <<[id |-> 1, name |-> "eth0", numa_index |-> 0, sriov_max_vf |-> MaxVf],
      [id |-> 2, name |-> "eth1", numa_index |-> 1, sriov_max_vf |-> MaxVf],
      [id |-> 3, name |-> "eth2", numa_index |-> NULL, sriov_max_vf |-> 0]>>

Memories == {1, MaxMemory}

VirtualMachine(id, project, cores, memory, hugepages_backed) ==
    [id |-> id, project |-> project, pinned_cores |-> cores[1],
     unpinned_cores |-> cores[2], memory |-> memory,
     hugepages_backed |-> hugepages_backed]

\* <<pinned_cores, unpinned_cores>> as VirtualMachine.clean accepts them:
\* pinned or unpinned cores, not both
CoreChoices ==
    {<<cs, 0>> : cs \in {S \in SUBSET CoreIds : S # {} /\ Cardinality(S) <= MaxPinned}}
    \cup {<<{}, n>> : n \in {0, 1, MaxUnpinned}}

PlainCoreChoices == {<<{}, 1>>, <<{0}, 0>>, <<{0, 1}, 0>>, <<{1, CoresPerNode}, 0>>}

\* a VM row but for its id
VmShapes(cores, memories) ==
    [project : Projects, cores : cores, memory : memories, hugepages_backed : BOOLEAN]

\* the rows of a list of shapes, ids in the order of the list
VmRows(shapes) ==
    [k \in DOMAIN shapes |->
        VirtualMachine(k, shapes[k].project, shapes[k].cores, shapes[k].memory,
                       shapes[k].hugepages_backed)]

VmInterfaceChoices(vm_ids) ==
    [vm_id : vm_ids, host_interface_id : {1, 2, 3, NULL},
     attachment_type : {SRIOV, BRIDGE}]

DiskChoices(vm_ids) ==
    [vm_id : vm_ids, size : {1, 2}, backing_pool_id : {1, NULL}]

\* sequences over S of length lo .. hi
Lists(S, lo, hi) == UNION {[1 .. n -> S] : n \in lo .. hi}

PoolChoices == {<<>>, <<[id |-> 1, storage |-> 3]>>,
                <<[id |-> 1, storage |-> 3], [id |-> 2, storage |-> 1]>>}

InitSnapshot(p, nodes, l, nics, disks, pools) ==
    /\ pod = p
    /\ numanodes = nodes
    /\ host_interfaces = HostInterfaces
    /\ vms = l
    /\ vm_interfaces = nics
    /\ vm_disks = disks
    /\ storage_pools = pools

\* at most one VM, of any shape, on every topology
PinningSnapshots ==
    \E p \in Pods, nodes \in Topologies,
       shapes \in Lists(VmShapes(CoreChoices, Memories), 0, 1) :
        InitSnapshot(p, nodes, VmRows(shapes), <<>>, <<>>, <<>>)

\* several VMs sharing the nodes
SharingSnapshots ==
    \E p \in Pods, shapes \in Lists(VmShapes(PlainCoreChoices, {MaxMemory}), 2, MaxVMs) :
        InitSnapshot(p, PlainTopology, VmRows(shapes), <<>>, <<>>, <<>>)

\* a tracked VM and a second VM, with interfaces
NetworkSnapshots ==
    \E c1 \in {<<{}, 1>>, <<{0}, 0>>, <<{1, CoresPerNode}, 0>>},
       p2 \in Projects,
       c2 \in {<<{}, 1>>, <<{CoresPerNode}, 0>>},
       nics \in Lists(VmInterfaceChoices({1, 2}), 0, MaxVmInterfaces),
       p \in Pods :
        InitSnapshot(p, PlainTopology,
                     <<VirtualMachine(1, TrackedProject, c1, 1, FALSE),
                       VirtualMachine(2, p2, c2, 1, FALSE)>>,
                     nics, <<>>, <<>>)

\* no VM, on every topology and with every choice of pools
EmptySnapshots ==
    \E p \in Pods, nodes \in Topologies, pools \in PoolChoices :
        InitSnapshot(p, nodes, <<>>, <<>>, <<>>, pools)

\* a tracked VM and a VM of another project, with disks
StorageSnapshots ==
    \E p \in Pods, disks \in Lists(DiskChoices({1, 2}), 0, MaxDisks),
       pools \in PoolChoices :
        InitSnapshot(p, PlainTopology,
                     <<VirtualMachine(1, TrackedProject, <<{}, 1>>, 1, FALSE),
                       VirtualMachine(2, "other", <<{0}, 0>>, 1, TRUE)>>,
                     <<>>, disks, pools)

Init ==
    /\ \/ PinningSnapshots
       \/ SharingSnapshots
       \/ NetworkSnapshots
       \/ StorageSnapshots
       \/ EmptySnapshots
    /\ pc = "start"
    /\ detailed = FALSE
    /\ resources = VMHostResources
    /\ detailed_vms = <<>>
    /\ vm_idx = 1
    /\ numanode_weights = <<>>
    /\ used_numanode_cores = <<>>
    /\ available_numanode_cores = <<>>
    /\ allocated_numanode_memory = <<>>
    /\ allocated_numanode_hugepages = <<>>
    /\ numanode_vms_resources = <<>>
    /\ allocated_vfs = <<>>
    /\ calls = 1
    /\ returned = <<>>
    /\ instance = <<>>

(***************************************************************************)
(* get_vm_host_resources(pod, detailed)                                    *)
(***************************************************************************)
\* ReturnNoHost with the test of pod.host after the global counters
ReturnNoHostAfterGlobal ==
    /\ pc = "start"
    /\ pod.host = None
    /\ detailed' \in BOOLEAN
    /\ resources' = UpdateGlobalResourceCounters(resources)
    /\ pc' = "done"
    /\ UNCHANGED <<snapshot, detailed_vms, vm_idx, numanode_weights,
                   used_numanode_cores, accumulators, callers, instance>>

\* `if pod.host is None: return resources`
ReturnNoHost ==
    /\ pc = "start"
    /\ pod.host = None
    /\ detailed' \in BOOLEAN
    /\ pc' = "done"
    /\ UNCHANGED <<snapshot, resources, detailed_vms, vm_idx, numanode_weights,
                   used_numanode_cores, accumulators, callers, instance>>

\* GlobalResourceCounters without `if detailed:`
GlobalResourceCountersAlwaysDetailed ==
    /\ pc = "start"
    /\ pod.host # None
    /\ detailed' \in BOOLEAN
    /\ resources' = UpdateGlobalResourceCounters(resources)
    /\ pc' = "detailed"
    /\ UNCHANGED <<snapshot, detailed_vms, vm_idx, numanode_weights,
                   used_numanode_cores, accumulators, callers, instance>>

\* _update_global_resource_counters(pod, resources); without `detailed`
\* the call returns
GlobalResourceCounters ==
    /\ pc = "start"
    /\ pod.host # None
    /\ detailed' \in BOOLEAN
    /\ resources' = UpdateGlobalResourceCounters(resources)
    /\ pc' = IF detailed' THEN "detailed" ELSE "done"
    /\ UNCHANGED <<snapshot, detailed_vms, vm_idx, numanode_weights,
                   used_numanode_cores, accumulators, callers, instance>>

\* DetailedResourceCounters with the VMs of all projects
DetailedResourceCountersAllVms ==
    /\ pc = "detailed"
    /\ available_numanode_cores' =
          [numa_idx \in NodeIndexes |-> NodeByIndex(numa_idx).cores]
    /\ allocated_numanode_memory' = [numa_idx \in NodeIndexes |-> 0]
    /\ allocated_numanode_hugepages' = [numa_idx \in NodeIndexes |-> 0]
    /\ numanode_vms_resources' = [numa_idx \in NodeIndexes |-> <<>>]
    /\ allocated_vfs' = [id \in {host_interfaces[k].id : k \in DOMAIN host_interfaces} |-> 0]
    /\ detailed_vms' = vms
    /\ vm_idx' = 1
    /\ pc' = "vms"
    /\ UNCHANGED <<snapshot, detailed, resources, numanode_weights,
                   used_numanode_cores, callers, instance>>

\* _update_detailed_resource_counters up to its loop over the VMs
DetailedResourceCounters ==
    /\ pc = "detailed"
    /\ available_numanode_cores' =
          [numa_idx \in NodeIndexes |-> NodeByIndex(numa_idx).cores]
    /\ allocated_numanode_memory' = [numa_idx \in NodeIndexes |-> 0]
    /\ allocated_numanode_hugepages' = [numa_idx \in NodeIndexes |-> 0]
    /\ numanode_vms_resources' = [numa_idx \in NodeIndexes |-> <<>>]
    /\ allocated_vfs' = [id \in {host_interfaces[k].id : k \in DOMAIN host_interfaces} |-> 0]
    /\ detailed_vms' = TrackedVms
    /\ vm_idx' = 1
    /\ pc' = "vms"
    /\ UNCHANGED <<snapshot, detailed, resources, numanode_weights,
                   used_numanode_cores, callers, instance>>

\* one turn of `for vm in vms`: _update_numanode_resources_usage
NumanodeResourcesUsage ==
    /\ pc = "vms"
    /\ vm_idx <= Len(detailed_vms)
    /\ LET vm == detailed_vms[vm_idx]
           w == GetVmNumanodeWeightsAndCores(vm)
       IN  /\ numanode_weights' = w.weights
           /\ used_numanode_cores' = w.cores
           /\ resources' = [resources EXCEPT !.vms =
                               Append(@, VMHostVirtualMachineResources(vm))]
           /\ allocated_numanode_memory' = MemoryAfter(vm, w, allocated_numanode_memory)
           /\ allocated_numanode_hugepages' =
                 HugepagesAfter(vm, w, allocated_numanode_hugepages)
           /\ available_numanode_cores' = CoresAfter(vm, w, available_numanode_cores)
           /\ allocated_vfs' = VfsAfter(vm, allocated_vfs)
           /\ numanode_vms_resources' = VmsResourcesAfter(vm, w, numanode_vms_resources)
    /\ vm_idx' = vm_idx + 1
    /\ UNCHANGED <<snapshot, pc, detailed, detailed_vms, callers, instance>>

\* resources.numa = [_get_numa_pinning_resources(...) for ... in numanodes]
NumaPinningResources ==
    /\ pc = "vms"
    /\ vm_idx > Len(detailed_vms)
    /\ resources' = [resources EXCEPT !.numa =
                        [k \in DOMAIN numanodes |-> GetNumaPinningResources(numanodes[k])]]
    /\ pc' = "done"
    /\ UNCHANGED <<snapshot, detailed, detailed_vms, vm_idx, numanode_weights,
                   used_numanode_cores, accumulators, callers, instance>>

\* CallAgain with the report of the call before for the new call's
\* `resources` (a VMHostResources shared between the calls)
CallAgainSharedResources ==
    /\ pc = "done"
    /\ calls < MaxCalls
    /\ returned' = <<[detailed |-> detailed, resources |-> resources]>>
    /\ calls' = calls + 1
    /\ pc' = "start"
    /\ detailed' = FALSE
    /\ resources' = resources
    /\ detailed_vms' = <<>>
    /\ vm_idx' = 1
    /\ numanode_weights' = <<>>
    /\ used_numanode_cores' = <<>>
    /\ available_numanode_cores' = <<>>
    /\ allocated_numanode_memory' = <<>>
    /\ allocated_numanode_hugepages' = <<>>
    /\ numanode_vms_resources' = <<>>
    /\ allocated_vfs' = <<>>
    /\ UNCHANGED <<snapshot, instance>>

\* `return resources`, and the next call of get_vm_host_resources on the
\* same rows: the locals of the call that returned are gone, the new call
\* starts from a new VMHostResources()
CallAgain ==
    /\ pc = "done"
    /\ calls < MaxCalls
    /\ returned' = <<[detailed |-> detailed, resources |-> resources]>>
    /\ calls' = calls + 1
    /\ pc' = "start"
    /\ detailed' = FALSE
    /\ resources' = VMHostResources
    /\ detailed_vms' = <<>>
    /\ vm_idx' = 1
    /\ numanode_weights' = <<>>
    /\ used_numanode_cores' = <<>>
    /\ available_numanode_cores' = <<>>
    /\ allocated_numanode_memory' = <<>>
    /\ allocated_numanode_hugepages' = <<>>
    /\ numanode_vms_resources' = <<>>
    /\ allocated_vfs' = <<>>
    /\ UNCHANGED <<snapshot, instance>>

Next ==
    \/ ReturnNoHost
    \/ GlobalResourceCounters
    \/ DetailedResourceCounters
    \/ NumanodeResourcesUsage
    \/ NumaPinningResources
    \/ CallAgain

Spec == Init /\ [][Next]_vars

(***************************************************************************)
(* VirtualMachine.clean, on a VirtualMachine about to be saved.  The       *)
(* fields are the model's fields: pinned_cores a list of integers (empty   *)
(* by default), unpinned_cores an integer (0 by default), which the field  *)
(* does not keep from being negative.                                      *)
(***************************************************************************)
\* CleanRaises taking unpinned_cores as set only when positive
CleanRaisesPositive(vm) == vm.pinned_cores # {} /\ vm.unpinned_cores > 0

\* `if self.pinned_cores and self.unpinned_cores:`
CleanRaises(vm) == vm.pinned_cores # {} /\ vm.unpinned_cores # 0

UnpinnedChoices == {0 - 1, 0, 1, MaxUnpinned}

Instances ==
    {VirtualMachine(1, TrackedProject, <<cs, n>>, m, h) :
        cs \in {S \in SUBSET CoreIds : Cardinality(S) <= MaxPinned},
        n \in UnpinnedChoices, m \in Memories, h \in BOOLEAN}

CleanInit ==
    /\ \E vm \in Instances : instance = <<vm>>
    /\ pc = "clean"
    /\ InitSnapshot([host |-> None, tracked_project |-> TrackedProject],
                    <<>>, <<>>, <<>>, <<>>, <<>>)
    /\ detailed = FALSE
    /\ resources = VMHostResources
    /\ detailed_vms = <<>>
    /\ vm_idx = 1
    /\ numanode_weights = <<>>
    /\ used_numanode_cores = <<>>
    /\ available_numanode_cores = <<>>
    /\ allocated_numanode_memory = <<>>
    /\ allocated_numanode_hugepages = <<>>
    /\ numanode_vms_resources = <<>>
    /\ allocated_vfs = <<>>
    /\ calls = 0
    /\ returned = <<>>

\* VirtualMachine.clean(self): raise ValidationError or return
clean ==
    /\ pc = "clean"
    /\ pc' = IF CleanRaises(instance[1]) THEN "ValidationError" ELSE "cleaned"
    /\ UNCHANGED <<snapshot, detailed, resources, detailed_vms, vm_idx,
                   numanode_weights, used_numanode_cores, accumulators,
                   callers, instance>>

CleanNext == clean

CleanSpec == CleanInit /\ [][CleanNext]_vars

(***************************************************************************)
(* Properties.                                                             *)
(***************************************************************************)
RECURSIVE SumOf(_, _)
SumOf(f, S) == IF S = {} THEN 0
               ELSE LET x == CHOOSE y \in S : TRUE
                    IN  f[x] + SumOf(f, S \ {x})

\* the VM _update_numanode_resources_usage processed last
SomeVmProcessed == vm_idx > 1
LastVm == detailed_vms[vm_idx - 1]

AllNodeCores == UNION {numanodes[k].cores : k \in DOMAIN numanodes}

\* _update_global_resource_counters has run
GlobalDone == pod.host # None /\ pc # "start"

\* the detailed report is complete
DetailedDone == pod.host # None /\ pc = "done" /\ detailed

\* a turn of the loop over the VMs, taken for a VM satisfying Test
VmStep(Test(_)) ==
    /\ pc = "vms"
    /\ vm_idx <= Len(detailed_vms)
    /\ vm_idx' = vm_idx + 1
    /\ Test(detailed_vms[vm_idx])

\* what the step added to a per node counter
Added(counter_after, counter_before, numa_idx) ==
    counter_after[numa_idx] - counter_before[numa_idx]

\* C1: for a VM with pinned cores that all belong to some NUMA node, every
\* weight is |pinned cores in the node| / |pinned_cores| and lies in (0, 1],
\* the nodes weighted are those holding a pinned core, the weights sum to 1
\* (their numerators sum to the common denominator), and the sizes of the
\* per node core sets sum to |pinned_cores|.
C1_WeightPartition ==
    (SomeVmProcessed /\ LastVm.pinned_cores # {}
                     /\ LastVm.pinned_cores \subseteq AllNodeCores)
    => LET pinned == LastVm.pinned_cores
           w == numanode_weights
       IN  /\ DOMAIN w = {idx \in NodeIndexes : pinned \cap NodeByIndex(idx).cores # {}}
           /\ \A idx \in DOMAIN w :
                /\ w[idx].den = Cardinality(pinned)
                /\ w[idx].num = Cardinality(pinned \cap NodeByIndex(idx).cores)
                /\ 0 < w[idx].num /\ w[idx].num <= w[idx].den
           /\ SumOf([idx \in DOMAIN w |-> w[idx].num], DOMAIN w) = Cardinality(pinned)
           /\ SumOf([idx \in NodeIndexes |-> Cardinality(used_numanode_cores[idx])],
                    NodeIndexes) = Cardinality(pinned)

\* C1 witness: a processed VM whose pinned cores lie in both nodes
C1_Witness ==
    /\ SomeVmProcessed
    /\ LastVm.pinned_cores \subseteq AllNodeCores
    /\ Cardinality(LastVm.pinned_cores) = 3
    /\ DOMAIN numanode_weights = NodeIndexes

\* the VM's entries in a node's vms list
VmEntriesInNode(vm, node_report) ==
    {j \in DOMAIN node_report.vms : node_report.vms[j].system_id = vm.id}

\* the VM has a VM interface attached to a host interface of the node
HasInterfaceInNode(vm, numa_idx) ==
    \E i \in DOMAIN vm_interfaces :
        /\ vm_interfaces[i].vm_id = vm.id
        /\ vm_interfaces[i].host_interface_id # NULL
        /\ HostInterfaceById(vm_interfaces[i].host_interface_id).numa_index = numa_idx

IsUnpinned(vm) == vm.pinned_cores = {}

\* every VM's cores are in the global cores.allocated and every VM is in vm_count
AllVmsCountedGlobally ==
    GlobalDone =>
        /\ Allocated(resources.cores)
             = SeqSum([k \in DOMAIN vms |->
                          Cardinality(vms[k].pinned_cores) + vms[k].unpinned_cores])
        /\ resources.vm_count.tracked + resources.vm_count.other = Len(vms)

\* processing an unpinned VM gives an empty weight map and changes no node's
\* cores, memory or hugepages
UnpinnedStepChangesNoNode ==
    VmStep(IsUnpinned) =>
        /\ numanode_weights' = <<>>
        /\ UNCHANGED <<available_numanode_cores, allocated_numanode_memory,
                       allocated_numanode_hugepages>>

\* C2 as amended: a VM with empty pinned_cores is counted in the global
\* cores.allocated and vm_count; its weight map is empty and processing it
\* changes no NUMA node's cores, memory or hugepages; it is in a node's vms
\* list, once and with no pinned cores, exactly when it is of the tracked
\* project and has a VM interface attached to a host interface of that node.
C2_UnpinnedVm ==
    /\ [](AllVmsCountedGlobally)
    /\ [][UnpinnedStepChangesNoNode]_vars
    /\ [](DetailedDone =>
            \A v \in DOMAIN vms : IsUnpinned(vms[v]) =>
                \A k \in DOMAIN resources.numa :
                    LET n == resources.numa[k]
                        entries == VmEntriesInNode(vms[v], n)
                    IN  /\ Cardinality(entries) =
                             IF IsTracked(vms[v]) /\ HasInterfaceInNode(vms[v], n.node_id)
                             THEN 1 ELSE 0
                        /\ \A j \in entries : n.vms[j].pinned_cores = {})

\* C2 as claimed: ... and it appears in no NUMA node's vms list, whatever
\* network interfaces it has.
C2_Original ==
    /\ [](AllVmsCountedGlobally)
    /\ [][UnpinnedStepChangesNoNode]_vars
    /\ [](DetailedDone =>
            \A v \in DOMAIN vms : IsUnpinned(vms[v]) =>
                \A k \in DOMAIN resources.numa :
                    VmEntriesInNode(vms[v], resources.numa[k]) = {})

\* C2 witness: an unpinned VM with an interface in node 0 has been processed
\* and reported
C2_Witness ==
    /\ DetailedDone
    /\ \E v \in DOMAIN vms :
          /\ IsUnpinned(vms[v]) /\ vms[v].unpinned_cores > 0
          /\ HasInterfaceInNode(vms[v], 0)
          /\ VmEntriesInNode(vms[v], resources.numa[1]) # {}

IsGeneral(vm) == ~vm.hugepages_backed
IsHugepagesBacked(vm) == vm.hugepages_backed

\* vm.memory * MB * weight as the fraction share / w.den
Share(vm, w) == vm.memory * MB * w.num

FullyMapped(vm) == vm.pinned_cores # {} /\ vm.pinned_cores \subseteq AllNodeCores

\* C3 as amended: for a VM that is not hugepages-backed each node of its
\* weight map has its allocated general memory increased by the weighted
\* share vm.memory * MB * weight truncated to whole bytes, no other node and
\* no hugepages counter changes; so the contributions of a VM whose pinned
\* cores all map to nodes sum to at most vm.memory * MB, fall short of it by
\* less than one byte per node, and sum to it when every share is whole.
C3_GeneralMemory ==
    [][VmStep(IsGeneral) =>
        LET vm == detailed_vms[vm_idx]
            w == numanode_weights'
            added(idx) == Added(allocated_numanode_memory', allocated_numanode_memory, idx)
            total == SumOf([idx \in NodeIndexes |-> added(idx)], NodeIndexes)
        IN  /\ \A idx \in NodeIndexes :
                 IF idx \in DOMAIN w
                 THEN /\ added(idx) * w[idx].den <= Share(vm, w[idx])
                      /\ Share(vm, w[idx]) < (added(idx) + 1) * w[idx].den
                 ELSE added(idx) = 0
            /\ UNCHANGED allocated_numanode_hugepages
            /\ FullyMapped(vm) =>
                 /\ total <= vm.memory * MB
                 /\ total > vm.memory * MB - Cardinality(DOMAIN w)
                 /\ (\A idx \in DOMAIN w : Share(vm, w[idx]) % w[idx].den = 0)
                       => total = vm.memory * MB
    ]_vars

\* C3 as claimed: the increase is exactly vm.memory * weight, with no rounding
\* or truncation, so the contributions of a fully mapped VM sum to vm.memory.
C3_Original ==
    [][VmStep(IsGeneral) =>
        LET vm == detailed_vms[vm_idx]
            w == numanode_weights'
            added(idx) == Added(allocated_numanode_memory', allocated_numanode_memory, idx)
        IN  /\ \A idx \in DOMAIN w : added(idx) * w[idx].den = Share(vm, w[idx])
            /\ FullyMapped(vm) =>
                 SumOf([idx \in NodeIndexes |-> added(idx)], NodeIndexes) = vm.memory * MB
    ]_vars

\* C3 witness: memory 1 pinned on three cores over both nodes: 699050 and
\* 349525 bytes, one byte short of 1 MB
C3_Witness ==
    /\ SomeVmProcessed
    /\ IsGeneral(LastVm) /\ LastVm.memory = 1
    /\ DOMAIN numanode_weights = NodeIndexes
    /\ numanode_weights[0].num = 2 /\ numanode_weights[0].den = 3
    /\ SumOf(allocated_numanode_memory, NodeIndexes) = MB - 1

\* C4: for a hugepages-backed VM and a node of its weight map with a hugepage
\* configuration, what is added to the node's allocated hugepages is a
\* non-negative multiple of the page size, at least the unrounded share
\* vm.memory * MB * weight, and less than one page above it.
C4_HugepagesRounding ==
    [][VmStep(IsHugepagesBacked) =>
        LET vm == detailed_vms[vm_idx]
            w == numanode_weights'
        IN  \A idx \in DOMAIN w : NodeByIndex(idx).hugepages_set # <<>> =>
              LET page_size == NodeByIndex(idx).hugepages_set[1].page_size
                  added == Added(allocated_numanode_hugepages',
                                 allocated_numanode_hugepages, idx)
              IN  /\ added >= 0
                  /\ added % page_size = 0
                  /\ added * w[idx].den >= Share(vm, w[idx])
                  /\ (added - page_size) * w[idx].den < Share(vm, w[idx])
    ]_vars

\* C4 witness: a hugepages-backed VM got more than its share on a node with
\* hugepages
C4_Witness ==
    /\ SomeVmProcessed /\ vm_idx = 2
    /\ IsHugepagesBacked(LastVm)
    /\ \E idx \in DOMAIN numanode_weights :
          /\ NodeByIndex(idx).hugepages_set # <<>>
          /\ allocated_numanode_hugepages[idx] * numanode_weights[idx].den
               > Share(LastVm, numanode_weights[idx])

Ascending(l) == \A i, j \in DOMAIN l : i < j => l[i] < l[j]

PinnedByProcessedVms == UNION {detailed_vms[k].pinned_cores : k \in DOMAIN detailed_vms}

\* C5: in every node of the detailed report cores.allocated and cores.free
\* are ascending, disjoint, together the node's cores, and cores.allocated
\* is the node's cores pinned by a processed VM.
C5_CoresPartition ==
    DetailedDone =>
        \A k \in DOMAIN resources.numa :
            LET cores == resources.numa[k].cores
                node == numanodes[k]
            IN  /\ resources.numa[k].node_id = node.index
                /\ Ascending(cores.allocated) /\ Ascending(cores.free)
                /\ Range(cores.allocated) \cap Range(cores.free) = {}
                /\ Range(cores.allocated) \cup Range(cores.free) = node.cores
                /\ Range(cores.allocated) = node.cores \cap PinnedByProcessedVms

\* C5 witness: two processed VMs pinned to a common core
C5_Witness ==
    /\ DetailedDone
    /\ Len(detailed_vms) = 2
    /\ detailed_vms[1].pinned_cores # detailed_vms[2].pinned_cores
    /\ detailed_vms[1].pinned_cores \cap detailed_vms[2].pinned_cores # {}
    /\ resources.numa[1].cores.allocated = <<0, 1>>

VmCores(vm) == Cardinality(vm.pinned_cores) + vm.unpinned_cores

\* the sum of Amount over the VMs satisfying Test
SumOverVms(Test(_), Amount(_)) ==
    SeqSum([k \in DOMAIN vms |-> IF Test(vms[k]) THEN Amount(vms[k]) ELSE 0])

IsOther(vm) == ~IsTracked(vm)

\* C6: cores.allocated_tracked is the sum of len(pinned_cores) +
\* unpinned_cores over the VMs of the tracked project, cores.allocated_other
\* the same sum over the other VMs.
C6_GlobalCores ==
    GlobalDone =>
        /\ resources.cores.allocated_tracked = SumOverVms(IsTracked, VmCores)
        /\ resources.cores.allocated_other = SumOverVms(IsOther, VmCores)

\* C6 witness: tracked and other VMs, pinned and unpinned
C6_Witness ==
    /\ GlobalDone
    /\ resources.cores.allocated_tracked = 2
    /\ resources.cores.allocated_other = 1
    /\ \E v \in DOMAIN vms : IsUnpinned(vms[v]) /\ vms[v].unpinned_cores > 0
    /\ \E v \in DOMAIN vms : ~IsUnpinned(vms[v])

VmMemory(vm) == vm.memory * MB
One(vm) == 1
IsTrackedHugepages(vm) == IsTracked(vm) /\ vm.hugepages_backed
IsTrackedGeneral(vm) == IsTracked(vm) /\ ~vm.hugepages_backed
IsOtherHugepages(vm) == ~IsTracked(vm) /\ vm.hugepages_backed
IsOtherGeneral(vm) == ~IsTracked(vm) /\ ~vm.hugepages_backed

\* C7: each of the four memory buckets holds the memory of the VMs of its
\* kind (hugepages iff hugepages_backed, tracked iff of the tracked project),
\* and vm_count.tracked + vm_count.other is the number of VMs.
C7_GlobalMemory ==
    GlobalDone =>
        /\ resources.memory.hugepages.allocated_tracked
             = SumOverVms(IsTrackedHugepages, VmMemory)
        /\ resources.memory.general.allocated_tracked
             = SumOverVms(IsTrackedGeneral, VmMemory)
        /\ resources.memory.hugepages.allocated_other
             = SumOverVms(IsOtherHugepages, VmMemory)
        /\ resources.memory.general.allocated_other
             = SumOverVms(IsOtherGeneral, VmMemory)
        /\ resources.vm_count.tracked = SumOverVms(IsTracked, One)
        /\ resources.vm_count.other = SumOverVms(IsOther, One)
        /\ resources.vm_count.tracked + resources.vm_count.other = Len(vms)

\* C7 witness: a hugepages-backed tracked VM and a general VM of another project
C7_Witness ==
    /\ GlobalDone
    /\ Len(vms) = 2
    /\ resources.memory.hugepages.allocated_tracked > 0
    /\ resources.memory.general.allocated_other > 0

TotalCores == SeqSum([k \in DOMAIN numanodes |-> Cardinality(numanodes[k].cores)])
TotalMemory == SeqSum([k \in DOMAIN numanodes |-> numanodes[k].memory * MB])
TotalHugepages ==
    SeqSum([k \in DOMAIN numanodes |->
               IF numanodes[k].hugepages_set = <<>> THEN 0
               ELSE numanodes[k].hugepages_set[1].total])

Balanced(r, total) ==
    /\ r.free + r.allocated_tracked + r.allocated_other = total
    /\ r.free < 0 <=> r.allocated_tracked + r.allocated_other > total

\* C8: for cores, general memory and hugepages free + allocated_tracked +
\* allocated_other is the host total, and free is negative exactly when the
\* allocation exceeds the total.
C8_GlobalFree ==
    GlobalDone =>
        /\ Balanced(resources.cores, TotalCores)
        /\ Balanced(resources.memory.general, TotalMemory)
        /\ Balanced(resources.memory.hugepages, TotalHugepages)

\* C8 witness: more cores and more memory allocated than the host has
C8_Witness ==
    /\ GlobalDone
    /\ resources.cores.free < 0
    /\ \/ resources.memory.general.free < 0
       \/ resources.memory.hugepages.free < 0

\* the VM interfaces attached to host interface h with SRIOV, of tracked VMs
\* (tracked = TRUE) or of the others
SriovAttachments(h, tracked) ==
    {i \in DOMAIN vm_interfaces :
        /\ vm_interfaces[i].host_interface_id = h.id
        /\ vm_interfaces[i].attachment_type = SRIOV
        /\ IsTracked(VmById(vm_interfaces[i].vm_id)) = tracked}

\* C9: every host interface is once in the global report, with
\* allocated_tracked / allocated_other the number of SRIOV attachments of
\* tracked / other VMs and free = sriov_max_vf - allocated.
C9_GlobalInterfaces ==
    GlobalDone =>
        /\ Len(resources.interfaces) = Len(host_interfaces)
        /\ \A k \in DOMAIN host_interfaces :
              LET h == host_interfaces[k]
                  found == {j \in DOMAIN resources.interfaces :
                               resources.interfaces[j].id = h.id}
              IN  /\ Cardinality(found) = 1
                  /\ \A j \in found :
                        LET vfs == resources.interfaces[j].virtual_functions
                        IN  /\ resources.interfaces[j].name = h.name
                            /\ vfs.allocated_tracked = Cardinality(SriovAttachments(h, TRUE))
                            /\ vfs.allocated_other = Cardinality(SriovAttachments(h, FALSE))
                            /\ vfs.free = h.sriov_max_vf - Allocated(vfs)

\* C9 witness: an interface with an SRIOV and a bridge attachment
C9_Witness ==
    /\ GlobalDone
    /\ Len(vm_interfaces) = 2
    /\ vm_interfaces[1].host_interface_id = 1 /\ vm_interfaces[2].host_interface_id = 1
    /\ vm_interfaces[1].attachment_type = SRIOV /\ vm_interfaces[2].attachment_type = BRIDGE
    /\ Allocated(resources.interfaces[1].virtual_functions) = 1
    /\ resources.interfaces[1].virtual_functions.free = MaxVf - 1

\* the allocated VFs reported for host interface h over the nodes' details
DetailedAllocatedVfs(h) ==
    SeqSum([k \in DOMAIN resources.numa |->
        SeqSum([j \in DOMAIN resources.numa[k].interfaces |->
            IF resources.numa[k].interfaces[j].id = h.id
            THEN resources.numa[k].interfaces[j].virtual_functions.allocated
            ELSE 0])])

GlobalVfs(h) ==
    resources.interfaces[CHOOSE j \in DOMAIN resources.interfaces :
                            resources.interfaces[j].id = h.id].virtual_functions

HostInterfacesInNodes ==
    {host_interfaces[k] : k \in {j \in DOMAIN host_interfaces :
                                    host_interfaces[j].numa_index # NULL}}

\* C10 as amended: for every host interface attached to a NUMA node the VF
\* allocated counts of the per node detail sum to the interface's
\* allocated_tracked count of the global report: the detail counts the SRIOV
\* attachments of the VMs of the tracked project only.
C10_DetailedVfs ==
    DetailedDone =>
        \A h \in HostInterfacesInNodes :
            DetailedAllocatedVfs(h) = GlobalVfs(h).allocated_tracked

\* C10 as claimed: the per node counts sum to allocated_tracked +
\* allocated_other.
C10_Original ==
    DetailedDone =>
        \A h \in HostInterfacesInNodes :
            DetailedAllocatedVfs(h) = Allocated(GlobalVfs(h))

\* C10 witness: SRIOV attachments of a tracked and of another VM to eth0
C10_Witness ==
    /\ DetailedDone
    /\ GlobalVfs(host_interfaces[1]).allocated_tracked = 1
    /\ GlobalVfs(host_interfaces[1]).allocated_other = 1
    /\ DetailedAllocatedVfs(host_interfaces[1]) = 1

\* the entries of host interface h in a node's interfaces list
InterfaceEntriesInNode(h, node_report) ==
    {j \in DOMAIN node_report.interfaces : node_report.interfaces[j].id = h.id}

\* C11: in the detailed report every host interface with a NUMA index is
\* once in the interfaces list of the node of that index and in no other
\* node's list; its virtual_functions.allocated is the number of SRIOV VM
\* interfaces of processed VMs (those of the tracked project) attached to
\* it, and allocated + free = sriov_max_vf.
C11_DetailedInterfaces ==
    DetailedDone =>
        \A h \in HostInterfacesInNodes :
            \A k \in DOMAIN resources.numa :
                LET n == resources.numa[k]
                    found == InterfaceEntriesInNode(h, n)
                IN  /\ Cardinality(found) = IF n.node_id = h.numa_index THEN 1 ELSE 0
                    /\ \A j \in found :
                          LET vfs == n.interfaces[j].virtual_functions
                          IN  /\ n.interfaces[j].name = h.name
                              /\ vfs.allocated = Cardinality(SriovAttachments(h, TRUE))
                              /\ vfs.allocated + vfs.free = h.sriov_max_vf

\* C11 witness: the tracked VM has an SRIOV and a bridge interface on eth1,
\* reported in node 1 with one VF allocated
C11_Witness ==
    /\ DetailedDone
    /\ Len(vm_interfaces) = 2
    /\ \A i \in DOMAIN vm_interfaces :
          vm_interfaces[i].vm_id = 1 /\ vm_interfaces[i].host_interface_id = 2
    /\ vm_interfaces[1].attachment_type = BRIDGE
    /\ vm_interfaces[2].attachment_type = SRIOV
    /\ InterfaceEntriesInNode(host_interfaces[2], resources.numa[2]) # {}
    /\ \A j \in InterfaceEntriesInNode(host_interfaces[2], resources.numa[2]) :
          resources.numa[2].interfaces[j].virtual_functions.allocated = 1

\* the VM's pinned cores that are cores of the node
CoresInNode(vm, node) == vm.pinned_cores \cap node.cores

\* the bytes of the VM's memory that fall to the node: its memory weighted
\* by the part of its pinned cores in the node, in whole bytes
BytesInNode(vm, node) ==
    IF CoresInNode(vm, node) = {} THEN 0
    ELSE (vm.memory * MB * Cardinality(CoresInNode(vm, node)))
            \div Cardinality(vm.pinned_cores)

\* the general memory the processed VMs have in the node
GeneralAllocatedInNode(node) ==
    SeqSum([v \in DOMAIN vms |->
               IF IsTracked(vms[v]) /\ ~vms[v].hugepages_backed
               THEN BytesInNode(vms[v], node) ELSE 0])

\* the total of the node's hugepage pool, 0 without a hugepage configuration
HugepagesTotal(node) ==
    IF node.hugepages_set = <<>> THEN 0 ELSE node.hugepages_set[1].total

\* C12: for every node of the detailed report memory.general.free is
\* node.memory (in bytes) less the allocated general memory, less the total
\* of the node's hugepage pool when it has one, whatever part of the pool
\* is allocated.
C12_GeneralFree ==
    DetailedDone =>
        \A k \in DOMAIN resources.numa :
            LET general == resources.numa[k].memory.general
                node == numanodes[k]
            IN  /\ general.allocated = GeneralAllocatedInNode(node)
                /\ general.free = node.memory * MB - general.allocated
                                     - HugepagesTotal(node)

\* C12 witness: node 0 has a hugepage pool, hugepages allocated that are
\* not what the pool holds, and general memory allocated
C12_Witness ==
    /\ DetailedDone
    /\ numanodes[1].hugepages_set # <<>>
    /\ resources.numa[1].memory.general.allocated > 0
    /\ resources.numa[1].memory.hugepages[1].allocated > 0
    /\ resources.numa[1].memory.hugepages[1].allocated # HugepagesTotal(numanodes[1])

\* b bytes in whole pages
InPages(b, page_size) == ((b + page_size - 1) \div page_size) * page_size

\* the hugepages the processed hugepages-backed VMs have in the node
HugepagesAllocatedInNode(node, page_size) ==
    SeqSum([v \in DOMAIN vms |->
               IF IsTracked(vms[v]) /\ vms[v].hugepages_backed
               THEN InPages(BytesInNode(vms[v], node), page_size) ELSE 0])

\* C13: for every node of the detailed report memory.hugepages has one
\* entry when the node has a hugepage configuration and none otherwise; the
\* entry has the node's page_size, allocated + free = the pool's total, and
\* allocated is the sum of the contributions, rounded up to whole pages, of
\* the processed hugepages-backed VMs with pinned cores in the node.
C13_HugepagesEntry ==
    DetailedDone =>
        \A k \in DOMAIN resources.numa :
            LET hugepages == resources.numa[k].memory.hugepages
                node == numanodes[k]
            IN  /\ Len(hugepages) = IF node.hugepages_set = <<>> THEN 0 ELSE 1
                /\ hugepages # <<>> =>
                      LET configured == node.hugepages_set[1]
                      IN  /\ hugepages[1].page_size = configured.page_size
                          /\ hugepages[1].allocated + hugepages[1].free
                                = configured.total
                          /\ hugepages[1].allocated
                                = HugepagesAllocatedInNode(node, configured.page_size)

\* C13 witness: a hugepages-backed VM with a share that is not whole pages
\* in node 0, which has a hugepage pool, while node 1 has none
C13_Witness ==
    /\ DetailedDone
    /\ numanodes[1].hugepages_set # <<>> /\ numanodes[2].hugepages_set = <<>>
    /\ resources.numa[2].memory.hugepages = <<>>
    /\ resources.numa[1].memory.hugepages[1].allocated > 0
    /\ \E v \in DOMAIN vms :
          /\ IsTracked(vms[v]) /\ vms[v].hugepages_backed
          /\ BytesInNode(vms[v], numanodes[1])
                % numanodes[1].hugepages_set[1].page_size # 0

\* the VM interfaces of the VM attached to a host interface of the node
InterfacesInNode(vm, numa_idx) ==
    SelectSeq(vm_interfaces,
              LAMBDA i : /\ i.vm_id = vm.id
                         /\ i.host_interface_id # NULL
                         /\ HostInterfaceById(i.host_interface_id).numa_index = numa_idx)

\* C14: a processed VM (one of the tracked project) is in a node's vms list
\* exactly when it has a pinned core in the node or a VM interface whose
\* numa_index is the node, and then once; its record has its pinned cores
\* that are in the node and one network entry for each such VM interface,
\* naming the host interface.
C14_NodeVms ==
    DetailedDone =>
        \A v \in DOMAIN vms : IsTracked(vms[v]) =>
            \A k \in DOMAIN resources.numa :
                LET n == resources.numa[k]
                    node == numanodes[k]
                    entries == VmEntriesInNode(vms[v], n)
                    nics == InterfacesInNode(vms[v], node.index)
                IN  /\ Cardinality(entries) =
                         IF CoresInNode(vms[v], node) # {} \/ nics # <<>>
                         THEN 1 ELSE 0
                    /\ \A j \in entries :
                          /\ n.vms[j].pinned_cores = CoresInNode(vms[v], node)
                          /\ Len(n.vms[j].networks) = Len(nics)
                          /\ \A i \in DOMAIN nics :
                                n.vms[j].networks[i].host_nic_id
                                  = nics[i].host_interface_id

\* C14 witness: VM 1, pinned in node 0 and with two interfaces on eth1, is
\* in node 0 by its core and in node 1 by its interfaces
C14_Witness ==
    /\ DetailedDone
    /\ vms # <<>> /\ IsTracked(vms[1])
    /\ vms[1].pinned_cores = {0}
    /\ Len(InterfacesInNode(vms[1], 1)) = 2
    /\ \E j \in VmEntriesInNode(vms[1], resources.numa[1]) :
          /\ resources.numa[1].vms[j].pinned_cores = {0}
          /\ resources.numa[1].vms[j].networks = <<>>
    /\ \E j \in VmEntriesInNode(vms[1], resources.numa[2]) :
          /\ resources.numa[2].vms[j].pinned_cores = {}
          /\ Len(resources.numa[2].vms[j].networks) = 2

\* nothing allocated and `total` free
AllFree(r, total) ==
    r.allocated_tracked = 0 /\ r.allocated_other = 0 /\ r.free = total

PoolsCapacity == SeqSum([k \in DOMAIN storage_pools |-> storage_pools[k].storage])

EmptyHost == vms = <<>>

\* the global report of a host with no VM
EmptyGlobalReport ==
    /\ AllFree(resources.cores, TotalCores)
    /\ AllFree(resources.memory.general, TotalMemory)
    /\ AllFree(resources.memory.hugepages, TotalHugepages)
    /\ AllFree(resources.storage, PoolsCapacity)
    /\ resources.vm_count = [tracked |-> 0, other |-> 0]
    /\ Len(resources.interfaces) = Len(host_interfaces)
    /\ \A k \in DOMAIN resources.interfaces :
          AllFree(resources.interfaces[k].virtual_functions,
                  HostInterfaceById(resources.interfaces[k].id).sriov_max_vf)

\* a node's report on a host with no VM, its free general memory apart
EmptyNodeReport(n, node) ==
    /\ n.cores.allocated = <<>>
    /\ Range(n.cores.free) = node.cores
    /\ n.memory.general.allocated = 0
    /\ \A j \in DOMAIN n.memory.hugepages :
          /\ n.memory.hugepages[j].allocated = 0
          /\ n.memory.hugepages[j].free = HugepagesTotal(node)
    /\ n.vms = <<>>
    /\ \A j \in DOMAIN n.interfaces :
          /\ n.interfaces[j].virtual_functions.allocated = 0
          /\ n.interfaces[j].virtual_functions.free
                = HostInterfaceById(n.interfaces[j].id).sriov_max_vf

\* C15 as amended: on a host with no VM every allocated counter of the
\* global report and every allocated value of a node is 0 and every free
\* value is the corresponding total (the host totals globally; per node its
\* cores, its hugepage pool's total and sriov_max_vf), but for a node's
\* free general memory, which is the node's memory less the total of its
\* hugepage pool when it has one.
C15_EmptyHost ==
    /\ (EmptyHost /\ GlobalDone) => EmptyGlobalReport
    /\ (EmptyHost /\ DetailedDone) =>
          \A k \in DOMAIN resources.numa :
              /\ EmptyNodeReport(resources.numa[k], numanodes[k])
              /\ resources.numa[k].memory.general.free
                    = numanodes[k].memory * MB - HugepagesTotal(numanodes[k])

\* C15 as claimed: ... every free value is the corresponding total, a
\* node's free general memory being the node's memory.
C15_Original ==
    /\ (EmptyHost /\ GlobalDone) => EmptyGlobalReport
    /\ (EmptyHost /\ DetailedDone) =>
          \A k \in DOMAIN resources.numa :
              /\ EmptyNodeReport(resources.numa[k], numanodes[k])
              /\ resources.numa[k].memory.general.free = numanodes[k].memory * MB

\* C15 witness: the detailed report of a host with no VM, with storage pools
\* and a hugepage pool in node 0
C15_Witness ==
    /\ EmptyHost /\ DetailedDone
    /\ storage_pools # <<>>
    /\ numanodes[1].hugepages_set # <<>>
    /\ resources.storage.free = PoolsCapacity
    /\ resources.numa[1].memory.general.free < numanodes[1].memory * MB

\* the call has returned for a pod with no host
NoHostDone == pod.host = None /\ pc = "done"

\* C16: for a pod with no host the call returns, with detailed or without,
\* the report VMHostResources() builds: every counter 0 and interfaces, vms
\* and numa empty, whatever VMs, disks and interfaces the pod has.
C16_NoHost ==
    NoHostDone =>
        /\ resources = VMHostResources
        /\ \A r \in {resources.cores, resources.memory.hugepages,
                      resources.memory.general, resources.storage} :
              r.allocated_tracked = 0 /\ r.allocated_other = 0 /\ r.free = 0
        /\ resources.vm_count.tracked = 0 /\ resources.vm_count.other = 0
        /\ resources.interfaces = <<>>
        /\ resources.vms = <<>>
        /\ resources.numa = <<>>

\* C16 witness: the detailed call returned for a pod with no host that has
\* VMs with interfaces
C16_Witness ==
    /\ NoHostDone
    /\ detailed
    /\ Len(vms) = 2
    /\ vm_interfaces # <<>>

\* a call has returned after another call
ReturnedAgain == pc = "done" /\ returned # <<>>

\* the call that returned gave the report of the call before, if called
\* with the same `detailed`
SameReportAgain ==
    (ReturnedAgain /\ returned[1].detailed = detailed)
        => returned[1].resources = resources

\* C17: a call of get_vm_host_resources changes none of the rows it reads,
\* and a second call on the same rows, with the same `detailed`, returns a
\* report equal to the first call's.
C17_Idempotence ==
    /\ []SameReportAgain
    /\ [][UNCHANGED snapshot]_vars

\* C17 witness: the second detailed call returned, on a host with two
\* processed VMs, where the first call was detailed too
C17_Witness ==
    /\ ReturnedAgain
    /\ calls = 2
    /\ detailed /\ returned[1].detailed
    /\ pod.host # None
    /\ Len(resources.vms) = 2
    /\ resources.numa # <<>>
    /\ resources.cores.allocated_tracked > 0

HasPinned(vm) == vm.pinned_cores # {}

\* C18 as amended: clean raises ValidationError for the VMs with non-empty
\* pinned_cores and non-zero unpinned_cores and for no other, so a VM it
\* accepts never has both; it may have neither.
C18_Clean ==
    /\ pc = "cleaned" => ~(HasPinned(instance[1]) /\ instance[1].unpinned_cores # 0)
    /\ pc = "ValidationError" =>
          (HasPinned(instance[1]) /\ instance[1].unpinned_cores # 0)

\* C18 as claimed: every accepted VM has non-empty pinned_cores or positive
\* unpinned_cores, and never both.
C18_Original ==
    pc = "cleaned" =>
        /\ HasPinned(instance[1]) \/ instance[1].unpinned_cores > 0
        /\ ~(HasPinned(instance[1]) /\ instance[1].unpinned_cores # 0)

\* C18 witness: a VM with no pinned and no unpinned cores was accepted
C18_Witness ==
    /\ pc = "cleaned"
    /\ ~HasPinned(instance[1])
    /\ instance[1].unpinned_cores = 0

\* the disk is backed by one of the pod's storage pools
InPodPool(disk) ==
    \E k \in DOMAIN storage_pools : storage_pools[k].id = disk.backing_pool_id

\* the sizes of the pool-backed disks of the tracked VMs (tracked = TRUE) or
\* of the others
DiskSizes(tracked) ==
    SeqSum([d \in DOMAIN vm_disks |->
               IF InPodPool(vm_disks[d])
                  /\ IsTracked(VmById(vm_disks[d].vm_id)) = tracked
               THEN vm_disks[d].size ELSE 0])

\* C19: storage.allocated_tracked / allocated_other is the sum of the sizes
\* of the disks backed by one of the pod's storage pools whose VM is of the
\* tracked project / is not, and free + allocated_tracked + allocated_other
\* is the total capacity of the pod's pools, 0 without pools.
C19_Storage ==
    GlobalDone =>
        /\ resources.storage.allocated_tracked = DiskSizes(TRUE)
        /\ resources.storage.allocated_other = DiskSizes(FALSE)
        /\ resources.storage.free + resources.storage.allocated_tracked
              + resources.storage.allocated_other = PoolsCapacity
        /\ storage_pools = <<>> => PoolsCapacity = 0 /\ resources.storage.free = 0

\* C19 witness: two pools, a disk of the tracked VM in a pool and a disk of
\* the other VM with no backing pool
C19_Witness ==
    /\ GlobalDone
    /\ Len(storage_pools) = 2
    /\ Len(vm_disks) = 2
    /\ vm_disks[1].vm_id = 1 /\ vm_disks[1].backing_pool_id = 1
    /\ vm_disks[2].vm_id = 2 /\ vm_disks[2].backing_pool_id = NULL
    /\ resources.storage.allocated_tracked = vm_disks[1].size
    /\ resources.storage.allocated_other = 0
    /\ resources.storage.free = PoolsCapacity - vm_disks[1].size

\* the nodes of a weight map that have no hugepage configuration
WeightedWithoutHugepages(w) ==
    {idx \in DOMAIN w : NodeByIndex(idx).hugepages_set = <<>>}

\* C20 as amended: when a hugepages-backed VM has weight on a node with no
\* hugepage configuration, its share for that node is accumulated nowhere:
\* neither the node's allocated hugepages nor its allocated general memory
\* changes; the step is taken all the same (no error), and the node's
\* report has no hugepages entry.
C20_NoHugepagesConfig ==
    /\ [][VmStep(IsHugepagesBacked) =>
            \A idx \in WeightedWithoutHugepages(numanode_weights') :
                /\ Added(allocated_numanode_hugepages',
                         allocated_numanode_hugepages, idx) = 0
                /\ Added(allocated_numanode_memory',
                         allocated_numanode_memory, idx) = 0
         ]_vars
    /\ [](DetailedDone =>
            \A k \in DOMAIN resources.numa :
                numanodes[k].hugepages_set = <<>>
                    => resources.numa[k].memory.hugepages = <<>>)

\* C20 as claimed: the share is accumulated into the node's allocated
\* hugepages counter, not into its general memory.
C20_Original ==
    [][VmStep(IsHugepagesBacked) =>
        \A idx \in WeightedWithoutHugepages(numanode_weights') :
            /\ Added(allocated_numanode_hugepages',
                     allocated_numanode_hugepages, idx)
                  = BytesInNode(detailed_vms[vm_idx], NodeByIndex(idx))
            /\ Added(allocated_numanode_memory',
                     allocated_numanode_memory, idx) = 0
    ]_vars

\* C20 witness: a hugepages-backed VM was processed that has cores in node
\* 1, which has no hugepage configuration, and node 1 counts nothing for it
C20_Witness ==
    /\ SomeVmProcessed /\ vm_idx = 2
    /\ IsHugepagesBacked(LastVm)
    /\ LastVm.memory > 0
    /\ 1 \in WeightedWithoutHugepages(numanode_weights)
    /\ allocated_numanode_hugepages[1] = 0
    /\ allocated_numanode_memory[1] = 0

\* the VM's project is the pod's tracked project
OfTrackedProject(vm) == vm.project = pod.tracked_project

\* the VMs of the host that are of the tracked project
VmsOfTrackedProject == SelectSeq(vms, OfTrackedProject)

\* the bytes of general memory the VMs satisfying Test have in the node
GeneralBytesInNode(Test(_), node) ==
    SeqSum([v \in DOMAIN vms |->
               IF Test(vms[v]) /\ ~vms[v].hugepages_backed
               THEN BytesInNode(vms[v], node) ELSE 0])

AnyVm(vm) == TRUE

\* C21 as amended: the detailed per node accounting processes the VMs of
\* the tracked project and no other: resources.vms lists them; each of them
\* with pinned cores has those cores in cores.allocated, not in cores.free,
\* of the node holding them, and its weighted memory added to that node; a
\* core pinned only by VMs of other projects is reported free, and their
\* memory is added to no node.
C21_DetailedVms ==
    DetailedDone =>
        /\ Len(resources.vms) = Len(VmsOfTrackedProject)
        /\ \A j \in DOMAIN resources.vms :
              resources.vms[j].id = VmsOfTrackedProject[j].id
        /\ \A k \in DOMAIN resources.numa :
              LET n == resources.numa[k]
                  node == numanodes[k]
                  pinned == UNION {CoresInNode(vms[v], node) :
                                      v \in {x \in DOMAIN vms : OfTrackedProject(vms[x])}}
              IN  /\ Range(n.cores.allocated) = pinned
                  /\ Range(n.cores.free) = node.cores \ pinned
                  /\ n.memory.general.allocated
                        = GeneralBytesInNode(OfTrackedProject, node)

\* C21 as claimed: every VM of the host is processed, so that a core pinned
\* by any VM is never reported free and every VM's weighted memory is added
\* to its nodes.
C21_Original ==
    DetailedDone =>
        /\ Len(resources.vms) = Len(vms)
        /\ \A k \in DOMAIN resources.numa :
              LET n == resources.numa[k]
                  node == numanodes[k]
              IN  /\ \A v \in DOMAIN vms :
                        CoresInNode(vms[v], node) \cap Range(n.cores.free) = {}
                  /\ n.memory.general.allocated = GeneralBytesInNode(AnyVm, node)

\* C21 witness: the tracked VM is pinned to core 0, a VM of another project
\* to the first core of node 1, which is reported free
C21_Witness ==
    /\ DetailedDone
    /\ Len(vms) = 2
    /\ OfTrackedProject(vms[1]) /\ vms[1].pinned_cores = {0}
    /\ ~OfTrackedProject(vms[2]) /\ vms[2].pinned_cores = {CoresPerNode}
    /\ resources.numa[1].cores.allocated = <<0>>
    /\ resources.numa[2].cores.allocated = <<>>
    /\ CoresPerNode \in Range(resources.numa[2].cores.free)
    /\ Len(resources.vms) = 1

\* the cores of the first i nodes
CoresUpTo(i) == UNION {numanodes[k].cores : k \in 1 .. i}

\* the number of nodes the scan for the VM looks at: up to the first node
\* by which every pinned core is attributed, all of them when a pinned core
\* is in no node
ScanEnd(vm) ==
    IF vm.pinned_cores \subseteq AllNodeCores
    THEN SetMin({i \in DOMAIN numanodes : vm.pinned_cores \subseteq CoresUpTo(i)})
    ELSE Len(numanodes)

\* C22: the weight resolver returns for every VM; for a VM with empty
\* pinned_cores both maps are empty and nothing is divided; the pinned
\* cores in no node are left out of the per node cores, and the others are
\* weighted against |pinned_cores|, a non-zero divisor, so that the weights
\* sum to less than 1 when a pinned core is in no node; the scan ends after
\* the node by which no pinned core remains, or after all nodes.
C22_ResolverTotal ==
    /\ DetailedDone => vm_idx = Len(detailed_vms) + 1
    /\ SomeVmProcessed =>
          LET pinned == LastVm.pinned_cores
              w == numanode_weights
              weighted == SumOf([idx \in DOMAIN w |-> w[idx].num], DOMAIN w)
          IN  /\ pinned = {} =>
                    /\ w = <<>>
                    /\ \A idx \in NodeIndexes : used_numanode_cores[idx] = {}
              /\ DOMAIN w = {idx \in NodeIndexes :
                                pinned \cap NodeByIndex(idx).cores # {}}
              /\ \A idx \in DOMAIN w :
                    /\ w[idx].den = Cardinality(pinned) /\ w[idx].den > 0
                    /\ w[idx].num = Cardinality(pinned \cap NodeByIndex(idx).cores)
              /\ UNION {used_numanode_cores[idx] : idx \in NodeIndexes}
                    = pinned \cap AllNodeCores
              /\ weighted = Cardinality(pinned \cap AllNodeCores)
              /\ ~(pinned \subseteq AllNodeCores) => weighted < Cardinality(pinned)
              /\ GetVmNumanodeWeightsAndCores(LastVm).scanned = ScanEnd(LastVm)

\* C22 witness: a VM pinned to core 0 and to a core of no node was
\* processed: weight 1/2 on node 0, none on node 1, both nodes scanned
C22_Witness ==
    /\ SomeVmProcessed
    /\ LastVm.pinned_cores = {0, NoNodeCore}
    /\ DOMAIN numanode_weights = {0}
    /\ numanode_weights[0] = [num |-> 1, den |-> 2]
    /\ used_numanode_cores[0] = {0} /\ used_numanode_cores[1] = {}
    /\ GetVmNumanodeWeightsAndCores(LastVm).scanned = 2

\* the global counters of a report
GlobalCounters(r) ==
    [cores |-> r.cores, memory |-> r.memory, storage |-> r.storage,
     vm_count |-> r.vm_count, interfaces |-> r.interfaces]

\* the detailed pass is under way
InDetailedPass == pc \in {"detailed", "vms"}

\* a step of the detailed pass leaves the global counters as they are
DetailedKeepsGlobalCounters ==
    InDetailedPass => GlobalCounters(resources') = GlobalCounters(resources)

\* two calls on the same rows, one detailed and one not, report the same
\* global counters
SameGlobalCountersEitherWay ==
    (ReturnedAgain /\ returned[1].detailed # detailed)
        => GlobalCounters(returned[1].resources) = GlobalCounters(resources)

====
